---- MODULE Spec2Model ----
(***************************************************************************)
(* Model of controllers/adminWithdrawalController.js: the withdrawal       *)
(* status-transition handler updateWithdrawalStatus, run by concurrent     *)
(* request handlers against a transactional relational store, and the two  *)
(* read handlers getAllWithdrawals and getWithdrawalStats, run by a reader *)
(* beside them; and of roiAccrualEmail of modules/invest/accuralEmail.js.  *)
(*                                                                         *)
(* Every `await` of the handler is one step of the model, so requests      *)
(* interleave exactly where the JavaScript event loop lets them.           *)
(***************************************************************************)
EXTENDS Integers, FiniteSets, Sequences, TLC

(***************************************************************************)
(* Bounds and the fixed world the requests run against.                    *)
(***************************************************************************)
MaxReq == 2                      \* requests started in one behaviour
MaxCalls == 2                    \* invocations of roiAccrualEmail in one behaviour

Procs == {1, 2}                  \* concurrently running request handlers
WIds == {1, 2}                   \* identifiers of the stored withdrawals
MissingId == Cardinality(WIds) + 1   \* an identifier matching no withdrawal
Users == {"u1", "u2"}            \* identifiers of the stored users
NoUser == "null"                 \* userId of a withdrawal whose user row is gone
NoAdmin == "null"                \* processed_by of an unprocessed withdrawal
InitBalance == 100               \* every user's walletBalance at the start

\* Withdrawal.amount and Withdrawal.userId never change in this controller.
AmountOf(w) == 50 * w
UserIdOf(w) == IF w = 2 THEN NoUser ELSE "u1"

\* The sum of the amounts of a set of withdrawals.
RECURSIVE SumAmounts(_)
SumAmounts(ws) ==
    IF ws = {} THEN 0
    ELSE LET w == CHOOSE x \in ws : TRUE
         IN  AmountOf(w) + SumAmounts(ws \ {w})

Terminal == {"completed", "failed", "rejected"}
\* req.body.adminNotes: absent ("") or a note
BodyNotes == {"", "note"}

\* The target statuses the handler accepts.
validStatuses_withPending ==
    {"pending", "confirmed", "completed", "failed", "rejected"}
validStatuses == {"confirmed", "completed", "failed", "rejected"}

\* Withdrawal.createdAt: withdrawals were created in the order of their ids.
CreatedAt(w) == w

VARIABLES
    withdrawals,     \* committed Withdrawal rows: id -> record
    walletBalance,   \* committed User.walletBalance: user id -> amount
    reqCount,        \* requests started so far; also the clock of new Date()
    pc,              \* per handler: the await it is parked at
    req,             \* per handler: the request it serves
    txn,             \* per handler: "none", "open", or transaction.finished
    withdrawal,      \* per handler: the instance findByPk returned
    updateData,      \* per handler: the updateData object
    txWrites,        \* per handler: rows written inside its open transaction
    stale,           \* per handler: rows committed by others since its snapshot
    ret,             \* per handler: the response to return after rollback
    res,             \* per handler: the response sent
    notified,        \* per handler: outcome of the notification step
    rollbackCalls,   \* per handler: calls of transaction.rollback()
    refunds,         \* history: committed wallet refunds per withdrawal
    rpc,             \* reader: the await its read handler is parked at
    query,           \* reader: req.query of getAllWithdrawals
    stats,           \* reader: result of the grouped query
    totalWithdrawals,\* reader: result of Withdrawal.count()
    listRes,         \* reader: the response of getAllWithdrawals
    statsRes,        \* reader: the response of getWithdrawalStats
    mpc,             \* roiAccrualEmail: where the invocation stands
    mailArgs,        \* roiAccrualEmail: the argument object
    mailOptions,     \* roiAccrualEmail: the mailOptions handed to sendMail
    sendMailCalls,   \* roiAccrualEmail: calls of sendMail by this invocation
    thrown,          \* roiAccrualEmail: message of the error it threw, if any
    invocations,     \* history: invocations of roiAccrualEmail so far
    delivered        \* history: mails the transport accepted

\* req.user.id: the admins take turns, so successive requests differ in it.
AdminOf(n) == IF n % 2 = 0 THEN "a1" ELSE "a2"

\* The requests the handlers are given: every transition request on a stored
\* withdrawal (adminNotes supplied or not), and one request for each way a
\* request can be refused before the withdrawal is loaded or because it is
\* missing.
Requests(n) ==
    [id : WIds, status : validStatuses, adminNotes : {""},
     admin : {AdminOf(n)}, valid : {TRUE}]
    \cup [id : WIds, status : {"confirmed"}, adminNotes : {"note"},
          admin : {AdminOf(n)}, valid : {TRUE}]
    \cup [id : {1}, status : {"", "pending"}, adminNotes : {""},
          admin : {AdminOf(n)}, valid : {TRUE}]
    \cup [id : {MissingId}, status : {"failed"}, adminNotes : {""},
          admin : {AdminOf(n)}, valid : {TRUE}]
    \cup [id : {1}, status : {"failed"}, adminNotes : {""},
          admin : {AdminOf(n)}, valid : {FALSE}]

\* The reader's variables; updateWithdrawalStatus never touches them.
reads == <<rpc, query, stats, totalWithdrawals, listRes, statsRes>>

\* The variables of roiAccrualEmail; the controller never touches them.
mail == <<mpc, mailArgs, mailOptions, sendMailCalls, thrown, invocations,
          delivered>>

\* The variables of updateWithdrawalStatus and the store.
controller == <<withdrawals, walletBalance, reqCount, pc, req, txn, withdrawal,
                updateData, txWrites, stale, ret, res, notified, rollbackCalls,
                refunds>>

vars == <<controller, reads, mail>>

store == <<withdrawals, walletBalance>>

NoRes == [code |-> 0, message |-> ""]
Response(code, message) == [code |-> code, message |-> message]

NoReq == [id |-> 0, status |-> "", adminNotes |-> "", admin |-> NoAdmin, valid |-> TRUE]
NotLoaded == [state |-> "unread", status |-> "", amount |-> 0, userId |-> NoUser, user |-> FALSE]
NullRow == [state |-> "null", status |-> "", amount |-> 0, userId |-> NoUser, user |-> FALSE]
NoUpdate == [status |-> ""]

\* The reader's query, locals and responses before they are set.
NoQuery == [status |-> "", userId |-> "", valid |-> TRUE]
NoStats == [s \in {} |-> [count |-> 0, totalAmount |-> 0]]
NoListRes ==
    [code |-> 0, success |-> FALSE, message |-> "", withdrawals |-> <<>>,
     total |-> 0]
NoStatsRes ==
    [code |-> 0, success |-> FALSE, message |-> "", stats |-> NoStats,
     totalWithdrawals |-> 0, totalAmount |-> 0]

\* roiAccrualEmail's argument and mailOptions before an invocation.
NoMailArgs ==
    [email |-> "", planName |-> "", roiAmount |-> 0, transactionId |-> 0,
     date |-> 0, investmentId |-> 0]
NoMailOptions ==
    [to |-> "", subject |-> "", amount |-> <<0, 0>>, planName |-> "",
     transactionId |-> 0, investmentId |-> 0, date |-> 0]

WRow(w) == <<"withdrawal", w>>
URow(u) == <<"user", u>>

(***************************************************************************)
(* The handler's pure decisions.                                           *)
(***************************************************************************)

\* handleValidationErrors(req): the request-shape validator's verdict, a
\* 400-class response or nothing.
HandleValidationErrors(r) ==
    IF r.valid THEN NoRes ELSE Response(400, "validation")

\* The guard on the loaded withdrawal's status.
CanUpdate_retryFailed(status) ==
    status = "pending" \/ status = "confirmed" \/ status = "failed"
CanUpdate(status) == ~(status # "pending" /\ status # "confirmed")

\* Whether the target status refunds the amount to the user's wallet.
NeedsRefund_failedOnly(status) == status = "failed"
NeedsRefund(status) == status = "failed" \/ status = "rejected"

\* The updateData object: status, processed_at, processed_by always;
\* admin_notes only when adminNotes is truthy; completed_at only for completed.
Fields(r) ==
    {"status", "processed_at", "processed_by"}
        \cup (IF r.adminNotes # "" THEN {"admin_notes"} ELSE {})
        \cup (IF r.status = "completed" THEN {"completed_at"} ELSE {})

BuildUpdateData_alwaysCompletedAt(r, now) ==
    [f \in Fields(r) \cup {"completed_at"} |->
        CASE f = "status" -> r.status
          [] f = "processed_at" -> now
          [] f = "processed_by" -> r.admin
          [] f = "admin_notes" -> r.adminNotes
          [] f = "completed_at" -> now]
BuildUpdateData_alwaysNotes(r, now) ==
    [f \in Fields(r) \cup {"admin_notes"} |->
        CASE f = "status" -> r.status
          [] f = "processed_at" -> now
          [] f = "processed_by" -> r.admin
          [] f = "admin_notes" -> r.adminNotes
          [] f = "completed_at" -> now]
BuildUpdateData(r, now) ==
    [f \in Fields(r) |->
        CASE f = "status" -> r.status
          [] f = "processed_at" -> now
          [] f = "processed_by" -> r.admin
          [] f = "admin_notes" -> r.adminNotes
          [] f = "completed_at" -> now]

\* instance.update(values): the row with the given fields overwritten.
ApplyUpdate(row, values) ==
    [f \in DOMAIN row |-> IF f \in DOMAIN values THEN values[f] ELSE row[f]]

\* The instance findByPk returns for an identifier (null when no row matches);
\* `user` tells whether the joined user row exists.
LoadWithdrawal(id) ==
    IF id \in DOMAIN withdrawals
    THEN [state |-> "row", status |-> withdrawals[id].status,
          amount |-> AmountOf(id), userId |-> UserIdOf(id),
          user |-> UserIdOf(id) \in Users]
    ELSE NullRow

(***************************************************************************)
(* The store's transaction isolation: transactions on the same rows are    *)
(* serialized. A row written inside an open transaction is locked until    *)
(* that transaction ends, and a transaction may not write a row another    *)
(* transaction committed after its own first read.                         *)
(***************************************************************************)
LockedByOther(p, row) ==
    \E q \in Procs \ {p} : txn[q] = "open" /\ row \in txWrites[q]

Conflicts_never(p, row) == FALSE
Conflicts(p, row) == row \in stale[p]

\* The snapshots invalidated when p commits its writes.
Invalidate(p, rows) ==
    [q \in Procs |->
        IF q # p /\ txn[q] = "open" /\ withdrawal[q].state # "unread"
        THEN stale[q] \cup rows ELSE stale[q]]

\* The committed rows after p's transaction is applied.
CommittedWithdrawals(p) ==
    IF WRow(req[p].id) \in txWrites[p]
    THEN [withdrawals EXCEPT ![req[p].id] = ApplyUpdate(@, updateData[p])]
    ELSE withdrawals

CommittedBalances_allUsers(p) ==
    [u \in Users |->
        IF \E v \in Users : URow(v) \in txWrites[p]
        THEN walletBalance[u] + withdrawal[p].amount
        ELSE walletBalance[u]]
CommittedBalances(p) ==
    [u \in Users |->
        IF URow(u) \in txWrites[p] /\ withdrawal[p].userId = u
        THEN walletBalance[u] + withdrawal[p].amount
        ELSE walletBalance[u]]

CommittedRefunds(p) ==
    IF \E u \in Users : URow(u) \in txWrites[p]
    THEN [refunds EXCEPT ![req[p].id] = @ + 1]
    ELSE refunds

(***************************************************************************)
(* Initial state: every withdrawal as created, pending and unprocessed.    *)
(***************************************************************************)
NewWithdrawal ==
    [status |-> "pending", processed_at |-> 0, processed_by |-> NoAdmin,
     completed_at |-> 0, admin_notes |-> ""]

\* Everything but the Withdrawal table.
InitRest ==
    /\ walletBalance = [u \in Users |-> InitBalance]
    /\ reqCount = 0
    /\ pc = [p \in Procs |-> "idle"]
    /\ req = [p \in Procs |-> NoReq]
    /\ txn = [p \in Procs |-> "none"]
    /\ withdrawal = [p \in Procs |-> NotLoaded]
    /\ updateData = [p \in Procs |-> NoUpdate]
    /\ txWrites = [p \in Procs |-> {}]
    /\ stale = [p \in Procs |-> {}]
    /\ ret = [p \in Procs |-> NoRes]
    /\ res = [p \in Procs |-> NoRes]
    /\ notified = [p \in Procs |-> "none"]
    /\ rollbackCalls = [p \in Procs |-> 0]
    /\ refunds = [w \in WIds |-> 0]
    /\ rpc = "idle"
    /\ query = NoQuery
    /\ stats = NoStats
    /\ totalWithdrawals = 0
    /\ listRes = NoListRes
    /\ statsRes = NoStatsRes
    /\ mpc = "idle"
    /\ mailArgs = NoMailArgs
    /\ mailOptions = NoMailOptions
    /\ sendMailCalls = 0
    /\ thrown = ""
    /\ invocations = 0
    /\ delivered = 0

Init ==
    /\ withdrawals = [w \in WIds |-> NewWithdrawal]
    /\ InitRest

(***************************************************************************)
(* updateWithdrawalStatus, one action per await.                           *)
(***************************************************************************)

\* The response an early check of the request gives, if any: request-shape
\* validation, then the required-field and status-value checks.
EarlyResponse(r) ==
    LET validationError == HandleValidationErrors(r)
    IN  IF validationError # NoRes THEN validationError
        ELSE IF r.status = "" THEN Response(400, "status_required")
        ELSE IF r.status \notin validStatuses THEN Response(400, "invalid_status")
        ELSE NoRes

\* A handler is free when it serves no request. Handlers are interchangeable:
\* handler 2 is the one that starts while handler 1 is busy.
Free(p) == pc[p] \in {"idle", "done", "crashed"}

\* A request arrives: the handler opens its transaction and checks the
\* request, up to its first store access or its early rollback.
StartRequest(p, r) ==
    /\ Free(p)
    /\ p = 2 => ~Free(1)
    /\ reqCount < MaxReq
    /\ reqCount' = reqCount + 1
    /\ req' = [req EXCEPT ![p] = r]
    /\ txn' = [txn EXCEPT ![p] = "open"]
    /\ ret' = [ret EXCEPT ![p] = EarlyResponse(r)]
    /\ pc' = [pc EXCEPT ![p] = IF EarlyResponse(r) # NoRes THEN "rollback" ELSE "find"]
    /\ withdrawal' = [withdrawal EXCEPT ![p] = NotLoaded]
    /\ updateData' = [updateData EXCEPT ![p] = NoUpdate]
    /\ txWrites' = [txWrites EXCEPT ![p] = {}]
    /\ stale' = [stale EXCEPT ![p] = {}]
    /\ res' = [res EXCEPT ![p] = NoRes]
    /\ notified' = [notified EXCEPT ![p] = "none"]
    /\ rollbackCalls' = [rollbackCalls EXCEPT ![p] = 0]
    /\ UNCHANGED <<reads, mail>>
    /\ UNCHANGED <<withdrawals, walletBalance, refunds>>

\* findByPk inside the transaction, then the not-found check, the status
\* guard and the construction of updateData.
FindByPk_noNullCheck(p) ==
    /\ pc[p] = "find"
    /\ LET w == LoadWithdrawal(req[p].id)
           early ==
               IF w.state = "null" THEN Response(404, "not_found")
               ELSE IF ~CanUpdate(w.status) THEN Response(400, "invalid_transition")
               ELSE NoRes
       IN  /\ withdrawal' = [withdrawal EXCEPT ![p] = w]
           /\ ret' = [ret EXCEPT ![p] = early]
           /\ updateData' = [updateData EXCEPT ![p] =
                   IF early = NoRes THEN BuildUpdateData(req[p], reqCount) ELSE @]
           /\ pc' = [pc EXCEPT ![p] =
                   IF w.state = "null" THEN "catch"
                   ELSE IF early # NoRes THEN "rollback"
                   ELSE IF NeedsRefund(req[p].status) THEN "refund"
                   ELSE "update"]
    /\ UNCHANGED <<reads, mail>>
    /\ UNCHANGED <<withdrawals, walletBalance, reqCount, req, txn, txWrites,
                   stale, res, notified, rollbackCalls, refunds>>
FindByPk(p) ==
    /\ pc[p] = "find"
    /\ LET w == LoadWithdrawal(req[p].id)
           early ==
               IF w.state = "null" THEN Response(404, "not_found")
               ELSE IF ~CanUpdate(w.status) THEN Response(400, "invalid_transition")
               ELSE NoRes
       IN  /\ withdrawal' = [withdrawal EXCEPT ![p] = w]
           /\ ret' = [ret EXCEPT ![p] = early]
           /\ updateData' = [updateData EXCEPT ![p] =
                   IF early = NoRes THEN BuildUpdateData(req[p], reqCount) ELSE @]
           /\ pc' = [pc EXCEPT ![p] =
                   IF early # NoRes THEN "rollback"
                   ELSE IF NeedsRefund(req[p].status) THEN "refund"
                   ELSE "update"]
    /\ UNCHANGED <<reads, mail>>
    /\ UNCHANGED <<withdrawals, walletBalance, reqCount, req, txn, txWrites,
                   stale, res, notified, rollbackCalls, refunds>>

\* User.update: walletBalance + amount where id = withdrawal.userId.
Refund_outsideTransaction(p) ==
    /\ pc[p] = "refund"
    /\ LET u == withdrawal[p].userId
       IN  walletBalance' =
               [v \in Users |->
                   IF v = u THEN walletBalance[v] + withdrawal[p].amount
                   ELSE walletBalance[v]]
    /\ pc' = [pc EXCEPT ![p] = "update"]
    /\ UNCHANGED <<reads, mail>>
    /\ UNCHANGED <<withdrawals, reqCount, req, txn, withdrawal, updateData,
                   txWrites, stale, ret, res, notified, rollbackCalls, refunds>>
Refund(p) ==
    /\ pc[p] = "refund"
    /\ LET u == withdrawal[p].userId
       IN  IF u \in Users
           THEN /\ ~LockedByOther(p, URow(u))
                /\ ~Conflicts(p, URow(u))
                /\ txWrites' = [txWrites EXCEPT ![p] = @ \cup {URow(u)}]
           ELSE UNCHANGED txWrites
    /\ pc' = [pc EXCEPT ![p] = "update"]
    /\ UNCHANGED <<reads, mail>>
    /\ UNCHANGED <<withdrawals, walletBalance, reqCount, req, txn, withdrawal,
                   updateData, stale, ret, res, notified, rollbackCalls, refunds>>

\* withdrawal.update(updateData) inside the transaction.
UpdateWithdrawal(p) ==
    /\ pc[p] = "update"
    /\ ~LockedByOther(p, WRow(req[p].id))
    /\ ~Conflicts(p, WRow(req[p].id))
    /\ txWrites' = [txWrites EXCEPT ![p] = @ \cup {WRow(req[p].id)}]
    /\ pc' = [pc EXCEPT ![p] = "commit"]
    /\ UNCHANGED <<reads, mail>>
    /\ UNCHANGED <<withdrawals, walletBalance, reqCount, req, txn, withdrawal,
                   updateData, stale, ret, res, notified, rollbackCalls, refunds>>

\* A store operation of the try block throws.
StoreFault(p) ==
    /\ pc[p] \in {"find", "refund", "update"}
    /\ pc' = [pc EXCEPT ![p] = "catch"]
    /\ UNCHANGED <<reads, mail>>
    /\ UNCHANGED <<withdrawals, walletBalance, reqCount, req, txn, withdrawal,
                   updateData, txWrites, stale, ret, res, notified,
                   rollbackCalls, refunds>>

\* transaction.commit() succeeds: the writes become visible together. Then
\* the notification step and the 200 response; reading withdrawal.user.email
\* throws when the user row is missing, and the inner catch logs it.
Commit_propagates(p) ==
    /\ pc[p] = "commit"
    /\ withdrawals' = CommittedWithdrawals(p)
    /\ walletBalance' = CommittedBalances(p)
    /\ refunds' = CommittedRefunds(p)
    /\ stale' = Invalidate(p, txWrites[p])
    /\ txWrites' = [txWrites EXCEPT ![p] = {}]
    /\ txn' = [txn EXCEPT ![p] = "commit"]
    /\ notified' = [notified EXCEPT ![p] =
            IF withdrawal[p].user THEN "sent" ELSE "failed"]
    /\ res' = [res EXCEPT ![p] =
            IF withdrawal[p].user THEN Response(200, "ok") ELSE @]
    /\ pc' = [pc EXCEPT ![p] = IF withdrawal[p].user THEN "done" ELSE "catch"]
    /\ UNCHANGED <<reads, mail>>
    /\ UNCHANGED <<reqCount, req, withdrawal, updateData, ret, rollbackCalls>>
Commit(p) ==
    /\ pc[p] = "commit"
    /\ withdrawals' = CommittedWithdrawals(p)
    /\ walletBalance' = CommittedBalances(p)
    /\ refunds' = CommittedRefunds(p)
    /\ stale' = Invalidate(p, txWrites[p])
    /\ txWrites' = [txWrites EXCEPT ![p] = {}]
    /\ txn' = [txn EXCEPT ![p] = "commit"]
    /\ notified' = [notified EXCEPT ![p] =
            IF withdrawal[p].user THEN "sent" ELSE "failed"]
    /\ res' = [res EXCEPT ![p] = Response(200, "ok")]
    /\ pc' = [pc EXCEPT ![p] = "done"]
    /\ UNCHANGED <<reads, mail>>
    /\ UNCHANGED <<reqCount, req, withdrawal, updateData, ret, rollbackCalls>>

\* transaction.commit() throws; the store may or may not have applied it.
CommitFault(p, applied) ==
    /\ pc[p] = "commit"
    /\ IF applied
       THEN /\ withdrawals' = CommittedWithdrawals(p)
            /\ walletBalance' = CommittedBalances(p)
            /\ refunds' = CommittedRefunds(p)
            /\ stale' = Invalidate(p, txWrites[p])
       ELSE UNCHANGED <<withdrawals, walletBalance, refunds, stale>>
    /\ txWrites' = [txWrites EXCEPT ![p] = {}]
    /\ txn' = [txn EXCEPT ![p] = "commit"]
    /\ pc' = [pc EXCEPT ![p] = "catch"]
    /\ UNCHANGED <<reads, mail>>
    /\ UNCHANGED <<reqCount, req, withdrawal, updateData, ret, res, notified,
                   rollbackCalls>>

\* transaction.rollback() of an early return, then the early response.
Rollback_skipped(p) ==
    /\ pc[p] = "rollback"
    /\ res' = [res EXCEPT ![p] = ret[p]]
    /\ pc' = [pc EXCEPT ![p] = "done"]
    /\ UNCHANGED <<reads, mail>>
    /\ UNCHANGED <<withdrawals, walletBalance, reqCount, req, txn, withdrawal,
                   updateData, txWrites, stale, ret, notified, rollbackCalls,
                   refunds>>
Rollback(p) ==
    /\ pc[p] = "rollback"
    /\ rollbackCalls' = [rollbackCalls EXCEPT ![p] = @ + 1]
    /\ txn' = [txn EXCEPT ![p] = "rollback"]
    /\ txWrites' = [txWrites EXCEPT ![p] = {}]
    /\ res' = [res EXCEPT ![p] = ret[p]]
    /\ pc' = [pc EXCEPT ![p] = "done"]
    /\ UNCHANGED <<reads, mail>>
    /\ UNCHANGED <<withdrawals, walletBalance, reqCount, req, withdrawal,
                   updateData, stale, ret, notified, refunds>>

\* transaction.rollback() of an early return throws.
RollbackFault(p) ==
    /\ pc[p] = "rollback"
    /\ rollbackCalls' = [rollbackCalls EXCEPT ![p] = @ + 1]
    /\ txn' = [txn EXCEPT ![p] = "rollback"]
    /\ txWrites' = [txWrites EXCEPT ![p] = {}]
    /\ pc' = [pc EXCEPT ![p] = "catch"]
    /\ UNCHANGED <<reads, mail>>
    /\ UNCHANGED <<withdrawals, walletBalance, reqCount, req, withdrawal,
                   updateData, stale, ret, res, notified, refunds>>

\* The catch block: rollback, then the 500 response. rollback() on a
\* transaction that is already finished throws, and so does a failing
\* rollback: the handler then ends without a response.
Catch(p, fails) ==
    /\ pc[p] = "catch"
    /\ rollbackCalls' = [rollbackCalls EXCEPT ![p] = @ + 1]
    /\ IF txn[p] # "open"
       THEN /\ pc' = [pc EXCEPT ![p] = "crashed"]
            /\ UNCHANGED <<txn, txWrites, res>>
       ELSE /\ txn' = [txn EXCEPT ![p] = "rollback"]
            /\ txWrites' = [txWrites EXCEPT ![p] = {}]
            /\ IF fails
               THEN /\ pc' = [pc EXCEPT ![p] = "crashed"]
                    /\ UNCHANGED res
               ELSE /\ pc' = [pc EXCEPT ![p] = "done"]
                    /\ res' = [res EXCEPT ![p] = Response(500, "error")]
    /\ UNCHANGED <<reads, mail>>
    /\ UNCHANGED <<withdrawals, walletBalance, reqCount, req, withdrawal,
                   updateData, stale, ret, notified, refunds>>

Next ==
    \/ \E p \in Procs, r \in Requests(reqCount) : StartRequest(p, r)
    \/ \E p \in Procs : FindByPk(p)
    \/ \E p \in Procs : Refund(p)
    \/ \E p \in Procs : UpdateWithdrawal(p)
    \/ \E p \in Procs : StoreFault(p)
    \/ \E p \in Procs : Commit(p)
    \/ \E p \in Procs, applied \in BOOLEAN : CommitFault(p, applied)
    \/ \E p \in Procs : Rollback(p)
    \/ \E p \in Procs : RollbackFault(p)
    \/ \E p \in Procs, fails \in BOOLEAN : Catch(p, fails)

Spec == Init /\ [][Next]_vars

(***************************************************************************)
(* The read handlers. They use no transaction: each query reads the        *)
(* committed rows at the moment it runs.                                   *)
(***************************************************************************)
Statuses == {"pending"} \cup validStatuses

\* req.query of getAllWithdrawals: each filter absent ("") or given, and
\* one query the request-shape validator refuses.
Queries ==
    [status : {"", "pending", "completed", "rejected"}, userId : {"", "u1"},
     valid : {TRUE}]
    \cup [status : {""}, userId : {""}, valid : {FALSE}]

\* sendErrorResponse(res, code, message, error) of a read handler.
ListError(code, message) ==
    [NoListRes EXCEPT !.code = code, !.message = message]
StatsError(code, message) ==
    [NoStatsRes EXCEPT !.code = code, !.message = message]

\* whereClause: a filter is applied only when its query parameter is truthy.
Matches_ignoreUserId(q, w) ==
    q.status # "" => withdrawals[w].status = q.status
Matches(q, w) ==
    /\ q.status # "" => withdrawals[w].status = q.status
    /\ q.userId # "" => UserIdOf(w) = q.userId

\* The projection of a row that findAll returns.
ListRow(w) ==
    [id |-> w, status |-> withdrawals[w].status, amount |-> AmountOf(w),
     userId |-> UserIdOf(w), createdAt |-> CreatedAt(w)]

\* order: [['createdAt', 'DESC']]
RECURSIVE OrderByCreatedAtDesc(_)
OrderByCreatedAtDesc(ws) ==
    IF ws = {} THEN <<>>
    ELSE LET w == CHOOSE x \in ws : \A y \in ws : CreatedAt(y) <= CreatedAt(x)
         IN  <<ListRow(w)>> \o OrderByCreatedAtDesc(ws \ {w})

\* Withdrawal.findAll({where: whereClause, order}).
FindAll(q) ==
    OrderByCreatedAtDesc({w \in DOMAIN withdrawals : Matches(q, w)})

\* The 200 response of getAllWithdrawals.
ListResponse_notFoundWhenEmpty(found) ==
    [code |-> IF Len(found) # 0 THEN 200 ELSE 404,
     success |-> Len(found) # 0,
     message |-> IF Len(found) # 0 THEN "Withdrawals retrieved successfully"
                 ELSE "No withdrawals found",
     withdrawals |-> found,
     total |-> Len(found)]
ListResponse(found) ==
    [code |-> 200,
     success |-> TRUE,
     message |-> IF Len(found) # 0 THEN "Withdrawals retrieved successfully"
                 ELSE "No withdrawals found",
     withdrawals |-> found,
     total |-> Len(found)]

\* Withdrawal.findAll({attributes: [status, COUNT(id), SUM(amount)],
\* group: ['status']}): one entry per status that has rows.
GroupByStatus ==
    LET present == {s \in Statuses :
                       \E w \in DOMAIN withdrawals : withdrawals[w].status = s}
        rows(s) == {w \in DOMAIN withdrawals : withdrawals[w].status = s}
    IN  [s \in present |->
            [count |-> Cardinality(rows(s)), totalAmount |-> SumAmounts(rows(s))]]

\* Withdrawal.count()
Count_pendingOnly ==
    Cardinality({w \in DOMAIN withdrawals : withdrawals[w].status = "pending"})
Count == Cardinality(DOMAIN withdrawals)

\* Withdrawal.sum('amount'): no value (<<>>) when the table has no rows.
Sum ==
    IF DOMAIN withdrawals = {} THEN <<>> ELSE <<SumAmounts(DOMAIN withdrawals)>>

\* totalAmount || 0
OrZero(v) == IF v = <<>> THEN 0 ELSE v[1]

ReaderFree == rpc \in {"idle", "done"}

\* getAllWithdrawals up to its await: validation and the where clause.
GetAllWithdrawals(q) ==
    /\ ReaderFree
    /\ query' = q
    /\ stats' = NoStats
    /\ totalWithdrawals' = 0
    /\ statsRes' = NoStatsRes
    /\ IF HandleValidationErrors(q) # NoRes
       THEN /\ listRes' = ListError(HandleValidationErrors(q).code,
                                    HandleValidationErrors(q).message)
            /\ rpc' = "done"
       ELSE /\ listRes' = NoListRes
            /\ rpc' = "findAll"
    /\ UNCHANGED mail
    /\ UNCHANGED <<withdrawals, walletBalance, reqCount, pc, req, txn,
                   withdrawal, updateData, txWrites, stale, ret, res, notified,
                   rollbackCalls, refunds>>

\* findAll resolves; the 200 response.
ListFound ==
    /\ rpc = "findAll"
    /\ listRes' = ListResponse(FindAll(query))
    /\ rpc' = "done"
    /\ UNCHANGED mail
    /\ UNCHANGED <<withdrawals, walletBalance, reqCount, pc, req, txn,
                   withdrawal, updateData, txWrites, stale, ret, res, notified,
                   rollbackCalls, refunds, query, stats, totalWithdrawals,
                   statsRes>>

\* getWithdrawalStats up to its first await.
GetWithdrawalStats(valid) ==
    /\ ReaderFree
    /\ query' = NoQuery
    /\ stats' = NoStats
    /\ totalWithdrawals' = 0
    /\ listRes' = NoListRes
    /\ IF HandleValidationErrors([valid |-> valid]) # NoRes
       THEN /\ statsRes' = StatsError(HandleValidationErrors([valid |-> valid]).code,
                                      HandleValidationErrors([valid |-> valid]).message)
            /\ rpc' = "done"
       ELSE /\ statsRes' = NoStatsRes
            /\ rpc' = "group"
    /\ UNCHANGED mail
    /\ UNCHANGED <<withdrawals, walletBalance, reqCount, pc, req, txn,
                   withdrawal, updateData, txWrites, stale, ret, res, notified,
                   rollbackCalls, refunds>>

\* The grouped query resolves.
StatsGroup ==
    /\ rpc = "group"
    /\ stats' = GroupByStatus
    /\ rpc' = "count"
    /\ UNCHANGED mail
    /\ UNCHANGED <<withdrawals, walletBalance, reqCount, pc, req, txn,
                   withdrawal, updateData, txWrites, stale, ret, res, notified,
                   rollbackCalls, refunds, query, totalWithdrawals, listRes,
                   statsRes>>

\* Withdrawal.count() resolves.
StatsCount ==
    /\ rpc = "count"
    /\ totalWithdrawals' = Count
    /\ rpc' = "sum"
    /\ UNCHANGED mail
    /\ UNCHANGED <<withdrawals, walletBalance, reqCount, pc, req, txn,
                   withdrawal, updateData, txWrites, stale, ret, res, notified,
                   rollbackCalls, refunds, query, stats, listRes, statsRes>>

\* Withdrawal.sum('amount') resolves; the 200 response.
StatsSum ==
    /\ rpc = "sum"
    /\ statsRes' =
           [code |-> 200, success |-> TRUE,
            message |-> "Withdrawal statistics retrieved successfully",
            stats |-> stats, totalWithdrawals |-> totalWithdrawals,
            totalAmount |-> OrZero(Sum)]
    /\ rpc' = "done"
    /\ UNCHANGED mail
    /\ UNCHANGED <<withdrawals, walletBalance, reqCount, pc, req, txn,
                   withdrawal, updateData, txWrites, stale, ret, res, notified,
                   rollbackCalls, refunds, query, stats, totalWithdrawals,
                   listRes>>

\* A query of a read handler throws: its catch block answers 500.
ReadFault ==
    /\ rpc \in {"findAll", "group", "count", "sum"}
    /\ IF rpc = "findAll"
       THEN /\ listRes' = ListError(500, "Failed to retrieve withdrawals")
            /\ UNCHANGED statsRes
       ELSE /\ statsRes' =
                   StatsError(500, "Failed to retrieve withdrawal statistics")
            /\ UNCHANGED listRes
    /\ rpc' = "done"
    /\ UNCHANGED mail
    /\ UNCHANGED <<withdrawals, walletBalance, reqCount, pc, req, txn,
                   withdrawal, updateData, txWrites, stale, ret, res, notified,
                   rollbackCalls, refunds, query, stats, totalWithdrawals>>

\* The read handlers beside one handler of updateWithdrawalStatus, on a
\* Withdrawal table holding any of the withdrawals.
InitReads ==
    /\ withdrawals \in {[w \in ws |-> NewWithdrawal] : ws \in SUBSET WIds}
    /\ InitRest

NextReads ==
    \/ \E r \in Requests(reqCount) : StartRequest(1, r)
    \/ FindByPk(1)
    \/ Refund(1)
    \/ UpdateWithdrawal(1)
    \/ Commit(1)
    \/ Rollback(1)
    \/ \E q \in Queries : GetAllWithdrawals(q)
    \/ ListFound
    \/ \E valid \in BOOLEAN : GetWithdrawalStats(valid)
    \/ StatsGroup
    \/ StatsCount
    \/ StatsSum
    \/ ReadFault

SpecReads == InitReads /\ [][NextReads]_vars

(***************************************************************************)
(* roiAccrualEmail: the template is filled, sendMail is called and         *)
(* awaited; a rejection is logged and replaced by a generic error.         *)
(***************************************************************************)

\* The arguments of an invocation; roiAmount is a number, here in
\* thousandths, date a timestamp.
MailArgs ==
    [email : {"a@x", "b@x"}, planName : {"Basic", "Gold"},
     roiAmount : {0, 999, 12344, 12500}, transactionId : {7}, date : {1},
     investmentId : {3}]

\* roiAmount.toFixed(2): the amount rounded to two decimals, as units and
\* hundredths.
ToFixed2(x) == <<((x + 5) \div 10) \div 100, ((x + 5) \div 10) % 100>>

\* The mailOptions object: recipient, subject and the values the template
\* embeds.
MailOptions(a) ==
    [to |-> a.email, subject |-> "Daily ROI Credit - Gratoms",
     amount |-> ToFixed2(a.roiAmount), planName |-> a.planName,
     transactionId |-> a.transactionId, investmentId |-> a.investmentId,
     date |-> a.date]

FailedToSend == "Failed to send ROI email"

\* The function is called: it builds mailOptions and calls sendMail.
RoiAccrualEmail(a) ==
    /\ mpc \in {"idle", "returned", "threw"}
    /\ invocations < MaxCalls
    /\ invocations' = invocations + 1
    /\ mailArgs' = a
    /\ mailOptions' = MailOptions(a)
    /\ sendMailCalls' = 1
    /\ thrown' = ""
    /\ mpc' = "sendMail"
    /\ UNCHANGED delivered
    /\ UNCHANGED <<controller, reads>>

\* sendMail resolves: the function logs and returns.
SendMailResolves ==
    /\ mpc = "sendMail"
    /\ delivered' = delivered + 1
    /\ mpc' = "returned"
    /\ UNCHANGED <<mailArgs, mailOptions, sendMailCalls, thrown, invocations>>
    /\ UNCHANGED <<controller, reads>>

\* sendMail rejects: the catch block logs the cause and throws the generic
\* error.
SendMailRejects_retry ==
    /\ mpc = "sendMail"
    /\ sendMailCalls' = sendMailCalls + 1
    /\ IF sendMailCalls < 2
       THEN mpc' = "sendMail" /\ UNCHANGED thrown
       ELSE mpc' = "threw" /\ thrown' = FailedToSend
    /\ UNCHANGED <<mailArgs, mailOptions, invocations, delivered>>
    /\ UNCHANGED <<controller, reads>>
SendMailRejects ==
    /\ mpc = "sendMail"
    /\ thrown' = FailedToSend
    /\ mpc' = "threw"
    /\ UNCHANGED <<mailArgs, mailOptions, sendMailCalls, invocations, delivered>>
    /\ UNCHANGED <<controller, reads>>

NextEmail ==
    \/ \E a \in MailArgs : RoiAccrualEmail(a)
    \/ SendMailResolves
    \/ SendMailRejects

SpecEmail == Init /\ [][NextEmail]_vars

(***************************************************************************)
(* Vocabulary of the properties.                                           *)
(***************************************************************************)
Refunding == {"failed", "rejected"}

\* Handler p takes the step.
Acts(p) == pc'[p] # pc[p]

\* The withdrawals owned by user u.
OwnedBy(u) == {w \in WIds : UserIdOf(w) = u}

InvalidTransition == Response(400, "invalid_transition")

\* Withdrawal w becomes failed or rejected in the step.
BecomesRefunding(w) ==
    /\ withdrawals'[w].status \in Refunding
    /\ withdrawals[w].status \notin Refunding

\* A request the handler refuses before it loads anything.
BadRequest(r) ==
    \/ ~r.valid
    \/ r.status = ""
    \/ r.status \notin {"confirmed", "completed", "failed", "rejected"}

\* The sums of the counts and of the amounts of a grouped result.
RECURSIVE SumCounts(_)
SumCounts(st) ==
    IF DOMAIN st = {} THEN 0
    ELSE LET s == CHOOSE x \in DOMAIN st : TRUE
         IN  st[s].count + SumCounts([t \in DOMAIN st \ {s} |-> st[t]])

RECURSIVE SumTotals(_)
SumTotals(st) ==
    IF DOMAIN st = {} THEN 0
    ELSE LET s == CHOOSE x \in DOMAIN st : TRUE
         IN  st[s].totalAmount + SumTotals([t \in DOMAIN st \ {s} |-> st[t]])

\* The reader takes the step.
ReaderActs == reads' # reads

\* The step in which getAllWithdrawals answers from the rows it found.
ListAnswers == rpc = "findAll" /\ rpc' = "done" /\ listRes'.code # 500

\* The withdrawals a query asks for.
AskedFor(q) ==
    {w \in DOMAIN withdrawals :
        /\ q.status = "" \/ withdrawals[w].status = q.status
        /\ q.userId = "" \/ UserIdOf(w) = q.userId}

\* The position of a status in the order pending, confirmed, terminal.
Rank(status) ==
    CASE status = "pending" -> 0
      [] status = "confirmed" -> 1
      [] OTHER -> 2

(***************************************************************************)
(* C1. A request that finds its withdrawal completed, failed or rejected   *)
(* is refused: whatever the requested target, the status guard sends it to *)
(* the rollback with the 400 invalid-transition response, the handler      *)
(* answers with that response when the rollback returns (and with nothing  *)
(* else), and no step of it changes a withdrawal record or a wallet        *)
(* balance.                                                                *)
(***************************************************************************)
C1_TerminalIsRefused ==
    [][\A p \in Procs :
        /\ ( /\ pc[p] = "find" /\ Acts(p) /\ pc'[p] # "catch"
             /\ req[p].id \in WIds
             /\ withdrawals[req[p].id].status \in Terminal )
           => /\ withdrawal'[p].status = withdrawals[req[p].id].status
              /\ pc'[p] = "rollback"
              /\ ret'[p] = InvalidTransition
        /\ ( withdrawal[p].state = "row" /\ withdrawal[p].status \in Terminal
             /\ Acts(p) /\ pc[p] \notin {"done", "crashed"} )
           => /\ store' = store
              /\ pc[p] \in {"rollback", "catch"}
              /\ pc[p] = "rollback" /\ pc'[p] = "done"
                    => res'[p] = InvalidTransition /\ txn'[p] = "rollback"
              /\ pc'[p] = "done" => pc[p] = "rollback"
    ]_vars

\* A completed withdrawal was asked to become rejected and got the 400.
C1_Witness ==
    \E p \in Procs :
        /\ pc[p] = "done"
        /\ withdrawal[p].status = "completed"
        /\ req[p].status = "rejected"
        /\ res[p] = InvalidTransition
        /\ withdrawals[req[p].id].status = "completed"

(***************************************************************************)
(* C2. A transition to failed or rejected and the refund become visible in *)
(* one step: the step that sets a pending or confirmed withdrawal of a     *)
(* user to failed or rejected raises that user's wallet balance by exactly *)
(* the withdrawal's amount, a wallet balance changes in no other step, and *)
(* the handler that committed it answers 200.                              *)
(***************************************************************************)
C2_RefundAtomicWithStatus ==
    [][\A u \in Users :
        LET ws == {w \in OwnedBy(u) : BecomesRefunding(w)}
        IN  /\ walletBalance'[u] = walletBalance[u] + SumAmounts(ws)
            /\ \A w \in ws : withdrawals[w].status \in {"pending", "confirmed"}
            /\ \A p \in Procs :
                  ( /\ Acts(p) /\ pc'[p] = "done" /\ res'[p].code = 200
                    /\ req[p].status \in Refunding
                    /\ UserIdOf(req[p].id) = u )
                  => /\ req[p].id \in ws
                     /\ walletBalance'[u] = walletBalance[u] + AmountOf(req[p].id)
                     /\ withdrawals'[req[p].id].status = req[p].status
    ]_vars

\* Withdrawal 1 (amount 50, pending) of a user with balance 100 was set to
\* failed: response 200, status failed, balance 150.
C2_Witness ==
    \E p \in Procs :
        /\ pc[p] = "done" /\ res[p].code = 200
        /\ req[p].id = 1 /\ req[p].status = "failed"
        /\ withdrawal[p].status = "pending"
        /\ withdrawals[1].status = "failed"
        /\ walletBalance["u1"] = InitBalance + AmountOf(1)

(***************************************************************************)
(* C3. In every state the owning user's wallet has been refunded exactly   *)
(* once for each of the user's withdrawals that is failed or rejected and  *)
(* not at all for any other withdrawal, each refund being the withdrawal's *)
(* amount.                                                                 *)
(***************************************************************************)
C3_RefundedExactlyOnce ==
    /\ \A w \in WIds :
          refunds[w] =
              IF withdrawals[w].status \in Refunding /\ UserIdOf(w) \in Users
              THEN 1 ELSE 0
    /\ \A u \in Users :
          walletBalance[u] =
              InitBalance
                + SumAmounts({w \in OwnedBy(u) : withdrawals[w].status \in Refunding})

\* Withdrawal 1 was refunded once and a repeated request on it was refused.
C3_Witness ==
    /\ refunds[1] = 1
    /\ withdrawals[1].status \in Refunding
    /\ \E p \in Procs :
          /\ pc[p] = "done" /\ req[p].id = 1 /\ req[p].status \in Refunding
          /\ res[p] = InvalidTransition

(***************************************************************************)
(* C4. Concurrent requests on the same withdrawal are serialized: a        *)
(* handler changes the store only while the status it loaded and decided   *)
(* on is still the stored status (pending or confirmed), so every commit   *)
(* is the effect of running its request alone at that moment; a request    *)
(* that loads the withdrawal after a terminal status was committed is sent *)
(* to the 400 response by the guard; and no withdrawal is refunded more    *)
(* than once.                                                              *)
(***************************************************************************)
C4_ConcurrentSerialized ==
    [][/\ \A w \in WIds : refunds'[w] <= 1
       /\ \A p \in Procs :
            /\ (Acts(p) /\ store' # store)
               => /\ withdrawal[p].state = "row"
                  /\ withdrawal[p].status = withdrawals[req[p].id].status
                  /\ withdrawal[p].status \in {"pending", "confirmed"}
            /\ ( /\ pc[p] = "find" /\ Acts(p) /\ pc'[p] # "catch"
                 /\ req[p].id \in WIds
                 /\ withdrawals[req[p].id].status \in Terminal )
               => pc'[p] = "rollback" /\ ret'[p].code = 400
    ]_vars

\* Two handlers loaded withdrawal 1 while it was pending, both to refund it:
\* one committed and answered 200, the other was stopped and answered 500.
C4_Witness ==
    \E p, q \in Procs :
        /\ p # q
        /\ req[p].id = 1 /\ req[q].id = 1
        /\ req[p].status \in Refunding /\ req[q].status \in Refunding
        /\ withdrawal[p].status = "pending" /\ withdrawal[q].status = "pending"
        /\ pc[p] = "done" /\ res[p].code = 200
        /\ pc[q] = "done" /\ res[q].code = 500
        /\ refunds[1] = 1

(***************************************************************************)
(* C5. When findByPk, the refund or the status write throws, the handler   *)
(* goes to its catch block with the transaction still open; the rollback   *)
(* there discards what the transaction wrote, a refund included, and the   *)
(* response is 500; no step of the handler from the load to that response  *)
(* changes a withdrawal record or a wallet balance.                        *)
(***************************************************************************)
C5_StoreFaultRollsBack ==
    [][\A p \in Procs :
        /\ (Acts(p) /\ pc[p] \in {"find", "refund", "update", "catch"})
           => store' = store
        /\ (pc[p] \in {"find", "refund", "update"} /\ pc'[p] = "catch")
           => txn'[p] = "open"
        /\ (pc[p] = "catch" /\ txn[p] = "open" /\ Acts(p))
           => /\ txn'[p] = "rollback"
              /\ txWrites'[p] = {}
              /\ pc'[p] = "done" => res'[p].code = 500
              /\ pc'[p] # "done" => pc'[p] = "crashed" /\ res'[p] = NoRes
    ]_vars

\* The refund was issued inside the transaction and the status write then
\* threw: the handler is in its catch block, the refund not yet discarded.
C5_Witness ==
    \E p \in Procs :
        /\ pc[p] = "catch" /\ txn[p] = "open"
        /\ URow("u1") \in txWrites[p]
        /\ WRow(req[p].id) \notin txWrites[p]
        /\ stale[p] = {}
        /\ walletBalance["u1"] = InitBalance

(***************************************************************************)
(* C6. The transaction is open whenever the handler loads the withdrawal,  *)
(* refunds, writes the status, commits or rolls back; whatever the         *)
(* transaction wrote is held in it while it is open; and once the handler  *)
(* has answered, the transaction is committed or rolled back.              *)
(***************************************************************************)
C6_TransactionScope ==
    \A p \in Procs :
        /\ pc[p] \in {"find", "refund", "update", "commit", "rollback"}
              => txn[p] = "open"
        /\ withdrawal[p].state # "unread" => txn[p] # "none"
        /\ txWrites[p] # {} => txn[p] = "open"
        /\ res[p] # NoRes => txn[p] \in {"commit", "rollback"}
        /\ pc[p] = "done" => res[p] # NoRes
        /\ res[p].code = 200 <=> txn[p] = "commit" /\ pc[p] = "done"

\* One handler answered 200 with its transaction committed, the other
\* answered 400 with its transaction rolled back.
C6_Witness ==
    \E p, q \in Procs :
        /\ pc[p] = "done" /\ res[p].code = 200 /\ txn[p] = "commit"
        /\ pc[q] = "done" /\ res[q].code = 400 /\ txn[q] = "rollback"

(***************************************************************************)
(* C7. A request whose shape validation fails, whose status is missing, or *)
(* whose status is not confirmed, completed, failed or rejected (pending   *)
(* included) never loads a withdrawal and writes nothing: it goes straight *)
(* to the rollback, is answered 400 with its transaction rolled back when  *)
(* the rollback returns, and no step of it changes a withdrawal record or  *)
(* a wallet balance.                                                       *)
(***************************************************************************)
C7_BadRequestRefused ==
    [][\A p \in Procs :
        (pc'[p] # "idle" /\ BadRequest(req'[p]))
        => /\ withdrawal'[p].state = "unread"
           /\ txWrites'[p] = {}
           /\ pc'[p] \in {"rollback", "catch", "done", "crashed"}
           /\ pc'[p] = "rollback" => ret'[p].code = 400
           /\ pc'[p] = "done" => res'[p].code = 400 /\ txn'[p] = "rollback"
           /\ Acts(p) => store' = store
    ]_vars

\* A request without a status was answered 400, its transaction rolled back.
C7_Witness ==
    \E p \in Procs :
        /\ pc[p] = "done" /\ req[p].status = "" /\ req[p].valid
        /\ res[p] = Response(400, "status_required")
        /\ txn[p] = "rollback"
        /\ withdrawal[p].state = "unread"

(***************************************************************************)
(* C8. A status only moves forward, pending, then confirmed, then a        *)
(* terminal status: a step changes a withdrawal record only if its status  *)
(* is pending or confirmed, never sets a status to pending, and never      *)
(* lowers the rank of a status, so a withdrawal that left confirmed is     *)
(* never confirmed again.                                                  *)
(***************************************************************************)
C8_StatusMovesForward ==
    [][\A w \in WIds :
        withdrawals'[w] # withdrawals[w]
        => /\ withdrawals[w].status \in {"pending", "confirmed"}
           /\ withdrawals'[w].status # "pending"
           /\ Rank(withdrawals'[w].status) >= Rank(withdrawals[w].status)
    ]_vars

\* Withdrawal 1 was confirmed with a note and then moved on to a terminal
\* status (only a confirming request writes the note).
C8_Witness ==
    /\ withdrawals[1].admin_notes = "note"
    /\ withdrawals[1].status \in Terminal

(***************************************************************************)
(* C9. In every state a withdrawal's completed_at is set exactly when its  *)
(* status is completed; in particular a transition to confirmed leaves it  *)
(* null and a transition to completed sets it.                             *)
(***************************************************************************)
C9_CompletedAtIffCompleted ==
    \A w \in WIds :
        withdrawals[w].completed_at # 0 <=> withdrawals[w].status = "completed"

\* One withdrawal was completed and has its completed_at, another was
\* confirmed and has none.
C9_Witness ==
    \E v, w \in WIds :
        /\ withdrawals[v].status = "completed" /\ withdrawals[v].completed_at # 0
        /\ withdrawals[w].status = "confirmed" /\ withdrawals[w].completed_at = 0
        /\ withdrawals[w].processed_at # 0

(***************************************************************************)
(* C10. The notification step runs only in the step in which the commit    *)
(* succeeded, and its failure changes nothing else: the handler answers    *)
(* 200, the transaction stays committed, rollback is not called, and the   *)
(* committed status and refund are in the store.                           *)
(***************************************************************************)
C10_NotificationIsolated ==
    [][\A p \in Procs :
        /\ notified'[p] # "none"
           => /\ txn'[p] = "commit"
              /\ pc'[p] = "done"
              /\ res'[p].code = 200
              /\ rollbackCalls'[p] = 0
        /\ (notified[p] = "none" /\ notified'[p] # "none")
           => /\ pc[p] = "commit" /\ txn[p] = "open"
              /\ withdrawals'[req[p].id].status = req[p].status
              /\ \A u \in Users :
                    walletBalance'[u] =
                        IF req[p].status \in Refunding /\ UserIdOf(req[p].id) = u
                        THEN walletBalance[u] + AmountOf(req[p].id)
                        ELSE walletBalance[u]
    ]_vars

\* The notification of a committed transition failed (the withdrawal has no
\* user row) and the handler still answered 200.
C10_Witness ==
    \E p \in Procs :
        /\ notified[p] = "failed"
        /\ pc[p] = "done" /\ res[p].code = 200
        /\ txn[p] = "commit" /\ rollbackCalls[p] = 0
        /\ withdrawals[req[p].id].status = req[p].status

(***************************************************************************)
(* C11. A request with a valid target status for an identifier that        *)
(* matches no withdrawal loads nothing and writes nothing: findByPk        *)
(* returns null, the handler goes to the rollback with the 404 response,   *)
(* answers 404 with its transaction rolled back when the rollback returns, *)
(* and no step of it changes a withdrawal record or a wallet balance.      *)
(***************************************************************************)
C11_MissingIsNotFound ==
    [][\A p \in Procs :
        ( /\ pc'[p] # "idle" /\ ~BadRequest(req'[p])
          /\ req'[p].id \notin WIds )
        => /\ txWrites'[p] = {}
           /\ withdrawal'[p].state \in {"unread", "null"}
           /\ (pc[p] = "find" /\ Acts(p) /\ pc'[p] # "catch")
                 => /\ pc'[p] = "rollback"
                    /\ ret'[p] = Response(404, "not_found")
                    /\ withdrawal'[p].state = "null"
           /\ pc'[p] = "done" /\ withdrawal'[p].state = "null"
                 => res'[p].code = 404 /\ txn'[p] = "rollback"
           /\ Acts(p) => store' = store
    ]_vars

\* A request to fail the withdrawal with the missing identifier was answered
\* 404, its transaction rolled back once.
C11_Witness ==
    \E p \in Procs :
        /\ pc[p] = "done" /\ req[p].id = MissingId /\ req[p].status = "failed"
        /\ res[p] = Response(404, "not_found")
        /\ txn[p] = "rollback" /\ rollbackCalls[p] = 1
        /\ walletBalance = [u \in Users |-> InitBalance]

(***************************************************************************)
(* C16. The step that commits a transition writes the requested status,    *)
(* the time at which updateData was built and the acting admin into the    *)
(* targeted record, writes admin_notes only when adminNotes was supplied   *)
(* and leaves it as it was otherwise; the step in which a handler answers  *)
(* 200 is such a step; and in every state processed_by is set exactly when *)
(* the status is not pending.                                              *)
(***************************************************************************)
C16_UpdateWritesProcessing ==
    [][/\ \A w \in WIds :
            withdrawals'[w].processed_by # NoAdmin
                <=> withdrawals'[w].status # "pending"
       /\ \A p \in Procs :
            (Acts(p) /\ (withdrawals' # withdrawals \/ res'[p].code = 200))
               => LET old == withdrawals[req[p].id]
                      new == withdrawals'[req[p].id]
                  IN  /\ new.status = req[p].status
                      /\ new.processed_by = req[p].admin
                      /\ new.processed_at \in 1..reqCount
                      /\ new.processed_at >= old.processed_at
                      /\ new.admin_notes =
                            IF req[p].adminNotes # "" THEN req[p].adminNotes
                            ELSE old.admin_notes
    ]_vars

\* Withdrawal 1 was confirmed with a note by the first admin and completed
\* without one by the second: the note is still there.
C16_Witness ==
    /\ withdrawals[1].status = "completed"
    /\ withdrawals[1].admin_notes = "note"
    /\ withdrawals[1].processed_by = AdminOf(1)
    /\ withdrawals[1].processed_at # 0
    /\ \E p \in Procs :
          /\ pc[p] = "done" /\ res[p].code = 200
          /\ req[p].status = "completed" /\ req[p].adminNotes = ""

(***************************************************************************)
(* C17. In every state, for every user, the wallet balance plus the        *)
(* amounts of the user's withdrawals that are pending, confirmed or        *)
(* completed equals the initial balance plus the amounts of all the        *)
(* user's withdrawals: no request creates or destroys money.               *)
(***************************************************************************)
C17_MoneyConserved ==
    \A u \in Users :
        walletBalance[u]
            + SumAmounts({w \in OwnedBy(u) :
                  withdrawals[w].status \in {"pending", "confirmed", "completed"}})
        = InitBalance + SumAmounts(OwnedBy(u))

\* Two handlers loaded the pending withdrawal 1 at the same time, one to
\* reject it and one to complete it; the rejection was committed and
\* refunded, the other handler was stopped before it wrote.
C17_Witness ==
    \E p, q \in Procs :
        /\ p # q
        /\ req[p].id = 1 /\ req[p].status = "rejected"
        /\ pc[p] = "done" /\ res[p].code = 200
        /\ req[q].id = 1 /\ req[q].status = "completed"
        /\ withdrawal[q].status = "pending"
        /\ pc[q] = "catch"
        /\ walletBalance["u1"] = InitBalance + AmountOf(1)

(***************************************************************************)
(* C19. Within one invocation the transaction is finished exactly once:    *)
(* rollback is called at most once, and never on a transaction on which    *)
(* commit was called.                                                      *)
(***************************************************************************)
C19_FinishedExactlyOnce ==
    \A p \in Procs :
        /\ rollbackCalls[p] <= 1
        /\ txn[p] = "commit" => rollbackCalls[p] = 0

(***************************************************************************)
(* C12. In every 200 response of getWithdrawalStats the per-status counts  *)
(* add up to totalWithdrawals and the per-status amounts add up to         *)
(* totalAmount, also when status transitions were committed between the    *)
(* grouped query, the count and the sum; on an empty table both totals     *)
(* are 0 and there is no group.                                            *)
(***************************************************************************)
C12_StatsAddUp ==
    statsRes.code = 200
        => /\ SumCounts(statsRes.stats) = statsRes.totalWithdrawals
           /\ SumTotals(statsRes.stats) = statsRes.totalAmount
           /\ \A s \in DOMAIN statsRes.stats : statsRes.stats[s].count >= 1
           /\ DOMAIN withdrawals = {}
                 => /\ statsRes.stats = NoStats
                    /\ statsRes.totalWithdrawals = 0
                    /\ statsRes.totalAmount = 0

\* The statistics were answered, and the grouping they carry is no longer
\* the grouping of the table: the one transition of the behaviour was
\* committed after the grouped query ran.
C12_Witness ==
    /\ rpc = "done" /\ statsRes.code = 200
    /\ statsRes.stats # GroupByStatus
    /\ statsRes.totalWithdrawals = Cardinality(WIds)
    /\ reqCount = 1 /\ pc[1] = "done" /\ res[1].code = 200

(***************************************************************************)
(* C13. When getAllWithdrawals answers from the rows it found, the list    *)
(* holds exactly the withdrawals the query asks for (status equal to the   *)
(* status filter when given, owner equal to userId when given, all of      *)
(* them without a filter), each once and with its stored status, in        *)
(* non-increasing order of creation time, and total is its length.         *)
(***************************************************************************)
C13_ListIsFilteredAndOrdered ==
    [][ListAnswers
        => LET found == listRes'.withdrawals
               idx == 1..Len(found)
           IN  /\ {found[i].id : i \in idx} = AskedFor(query)
               /\ Len(found) = Cardinality(AskedFor(query))
               /\ \A i \in idx :
                     /\ found[i].status = withdrawals[found[i].id].status
                     /\ found[i].createdAt = CreatedAt(found[i].id)
               /\ \A i, j \in idx :
                     i < j => found[i].createdAt >= found[j].createdAt
               /\ listRes'.total = Len(found)
    ]_vars

\* A listing with status=pending returned both withdrawals, the later one
\* first.
C13_Witness ==
    /\ rpc = "done" /\ listRes.code = 200
    /\ query = [status |-> "pending", userId |-> "", valid |-> TRUE]
    /\ listRes.total = 2
    /\ listRes.withdrawals[1].id = 2 /\ listRes.withdrawals[2].id = 1
    /\ listRes.withdrawals[1].createdAt > listRes.withdrawals[2].createdAt

(***************************************************************************)
(* C15. When getAllWithdrawals answers from the rows it found, the         *)
(* response is 200 with success true whether or not rows match; the        *)
(* message alone tells the two cases apart, and when no row matches the    *)
(* list is empty and total is 0.                                           *)
(***************************************************************************)
C15_EmptyListIsSuccess ==
    [][ListAnswers
        => /\ listRes'.code = 200
           /\ listRes'.success
           /\ listRes'.total = Len(listRes'.withdrawals)
           /\ AskedFor(query) = {}
                 => /\ listRes'.withdrawals = <<>>
                    /\ listRes'.total = 0
                    /\ listRes'.message = "No withdrawals found"
           /\ AskedFor(query) # {}
                 => /\ listRes'.withdrawals # <<>>
                    /\ listRes'.message = "Withdrawals retrieved successfully"
    ]_vars

\* The table holds withdrawals, none of them completed, and a listing with
\* status=completed was answered 200 with an empty list.
C15_Witness ==
    /\ rpc = "done"
    /\ query.status = "completed"
    /\ DOMAIN withdrawals = WIds
    /\ \A w \in WIds : withdrawals[w].status # "completed"
    /\ listRes = [code |-> 200, success |-> TRUE,
                  message |-> "No withdrawals found",
                  withdrawals |-> <<>>, total |-> 0]

(***************************************************************************)
(* C18. The step that commits a transition changes the targeted withdrawal *)
(* only, and the wallet balance of its owner only, by the amount, when the *)
(* target is failed or rejected; no balance changes for confirmed or       *)
(* completed. No other step of updateWithdrawalStatus and no step of       *)
(* getAllWithdrawals or getWithdrawalStats changes the store, and no step  *)
(* adds or removes a withdrawal.                                           *)
(***************************************************************************)
C18_FrameOfHandlers ==
    [][/\ DOMAIN withdrawals' = DOMAIN withdrawals
       /\ ReaderActs => store' = store
       /\ \A p \in Procs :
            /\ (Acts(p) /\ pc[p] # "commit") => store' = store
            /\ (Acts(p) /\ pc[p] = "commit")
               => LET id == req[p].id
                      u == UserIdOf(id)
                  IN  /\ res'[p].code = 200
                      /\ \A w \in DOMAIN withdrawals \ {id} :
                            withdrawals'[w] = withdrawals[w]
                      /\ \A v \in Users :
                            walletBalance'[v] =
                                IF v = u /\ req[p].status \in Refunding
                                THEN walletBalance[v] + AmountOf(id)
                                ELSE walletBalance[v]
    ]_vars

\* Withdrawal 1 was rejected and refunded to its owner alone while the
\* reader was answered the statistics; the other withdrawal is untouched.
C18_Witness ==
    /\ pc[1] = "done" /\ res[1].code = 200
    /\ req[1].id = 1 /\ req[1].status = "rejected"
    /\ DOMAIN withdrawals = WIds
    /\ withdrawals[2] = NewWithdrawal
    /\ walletBalance = [u \in Users |->
            IF u = UserIdOf(1) THEN InitBalance + AmountOf(1) ELSE InitBalance]
    /\ rpc = "done" /\ statsRes.code = 200

(***************************************************************************)
(* C14. An invocation of roiAccrualEmail has called sendMail exactly once  *)
(* from the moment it awaits it, with the mailOptions built from its       *)
(* arguments; when sendMail rejects, the function throws the generic error *)
(* without calling sendMail again, and when sendMail resolves the function *)
(* returns without an error. The transport accepts at most one mail per    *)
(* invocation.                                                             *)
(***************************************************************************)
C14_SendsExactlyOnce ==
    /\ mpc # "idle"
          => /\ sendMailCalls = 1
             /\ mailOptions = MailOptions(mailArgs)
    /\ mpc = "threw" <=> thrown = FailedToSend
    /\ mpc = "returned" => thrown = ""
    /\ delivered <= invocations
    /\ mpc = "returned" => delivered >= 1

\* The second invocation failed after the first was delivered: it threw the
\* generic error having called sendMail once, and one mail was accepted.
C14_Witness ==
    /\ mpc = "threw" /\ thrown = FailedToSend
    /\ sendMailCalls = 1
    /\ invocations = 2 /\ delivered = 1
    /\ mailOptions.to = mailArgs.email
    /\ mailArgs.roiAmount = 12500 /\ mailOptions.amount = <<12, 50>>

====
